---- MODULE Spec2Model ----
(***************************************************************************)
(* Model of fields/workflow.py: the role-based workflow engine of Appy.    *)
(*                                                                         *)
(* Python values are records tagged with their class in field cls, so that *)
(* the isinstance()/type() dispatch of the code is a computation on the    *)
(* value and not an assumption of the model.                               *)
(***************************************************************************)
EXTENDS Integers, Sequences, FiniteSets, TLC

VARIABLES
    history,    \* obj.workflow_history[key]: the object's sequence of events
    call,       \* the call made on a Transition or a State in the current
                \* request: arguments, environment, returned value or raised
                \* error and the collaborator calls made; op is "none"
                \* between two requests
    stateInst   \* a State instance of a workflow under definition: its
                \* permissions and usedRoles; None before it is constructed

vars == <<history, call, stateInst>>

----------------------------------------------------------------------------
(* Bounds                                                                  *)

\* Largest number of events kept in an object's history.
MaxHistory == 2

\* Largest number of elements of a sequence condition.
MaxCondLen == 3

\* Largest number of transitions triggered on an object after its creation,
\* when every trigger follows a successful isTriggerable.
MaxSteps == 3

\* Largest number of roles a permission is granted to in a State declaration.
MaxRoles == 2

----------------------------------------------------------------------------
(* Python values                                                           *)

None == [cls |-> "NoneType"]
True == [cls |-> "bool", val |-> TRUE]
False == [cls |-> "bool", val |-> FALSE]
Bool(b) == IF b THEN True ELSE False
Str(s) == [cls |-> "str", s |-> s]
Tuple(items) == [cls |-> "tuple", items |-> items]
List(items) == [cls |-> "list", items |-> items]
Function(f) == [cls |-> "function", fn |-> f]

\* Python truth value of the values the model uses.
Truthy(v) ==
    CASE v.cls = "NoneType" -> FALSE
      [] v.cls = "bool" -> v.val
      [] v.cls = "str" -> v.s # ""
      [] v.cls \in {"tuple", "list"} -> Len(v.items) > 0
      [] OTHER -> TRUE

----------------------------------------------------------------------------
(* class Role                                                              *)

zopeRoles == {"Manager", "Owner", "Anonymous", "Authenticated"}
zopeLocalRoles == {"Owner"}
zopeUngrantableRoles == {"Anonymous", "Authenticated"}

Role(name, local, grantable) ==
    LET zope == name \in zopeRoles
    IN  [cls |-> "Role",
         name |-> name,
         local |-> IF zope /\ name \in zopeLocalRoles THEN TRUE ELSE local,
         zope |-> zope,
         grantable |-> IF zope /\ name \in zopeUngrantableRoles
                       THEN FALSE ELSE grantable]

\* A Role instance: the object Role(name, local, grantable) allocated at
\* address oid. Two instances of equal attributes are two objects.
RoleAt(name, local, grantable, oid) ==
    LET role == Role(name, local, grantable)
    IN  [cls |-> "Role", name |-> role.name, local |-> role.local,
         zope |-> role.zope, grantable |-> role.grantable, oid |-> oid]

----------------------------------------------------------------------------
(* class State                                                             *)

\* d[key] = value on a dict.
DictPut(d, key, value) ==
    [k \in DOMAIN d \cup {key} |-> IF k = key THEN value ELSE d[k]]

\* getRole storing the Role it is given whether or not its name is taken.
getRoleAlwaysStores(self, role) ==
    IF role.cls = "str"
    THEN IF role.s \in DOMAIN self.usedRoles
         THEN [self |-> self, ret |-> self.usedRoles[role.s]]
         ELSE LET theRole == RoleAt(role.s, FALSE, TRUE, self.heap)
              IN  [self |-> [self EXCEPT
                                !.usedRoles = DictPut(@, role.s, theRole),
                                !.heap = @ + 1],
                   ret |-> theRole]
    ELSE [self |-> [self EXCEPT !.usedRoles = DictPut(@, role.name, role)],
          ret |-> role]

\* State.getRole(role): the state it leaves and the Role it returns. heap is
\* the address the next Role created gets.
getRole(self, role) ==
    IF role.cls = "str"
    THEN IF role.s \in DOMAIN self.usedRoles
         THEN [self |-> self, ret |-> self.usedRoles[role.s]]
         ELSE LET theRole == RoleAt(role.s, FALSE, TRUE, self.heap)
              IN  [self |-> [self EXCEPT
                                !.usedRoles = DictPut(@, role.s, theRole),
                                !.heap = @ + 1],
                   ret |-> theRole]
    ELSE IF role.name \notin DOMAIN self.usedRoles
         THEN [self |-> [self EXCEPT
                            !.usedRoles = DictPut(@, role.name, role)],
               ret |-> role]
         ELSE [self |-> self, ret |-> role]

\* The inner loop of standardizeRoles, over the roles of one permission.
RECURSIVE standardizeList(_, _, _, _)
standardizeList(self, roles, i, rolesList) ==
    IF i > Len(roles) THEN [self |-> self, rolesList |-> rolesList]
    ELSE LET got == getRole(self, roles[i])
         IN  standardizeList(got.self, roles, i + 1,
                             Append(rolesList, got.ret))

\* What standardizeRoles does with the roles of one permission: a role name
\* or a Role becomes a list of one Role, a non-empty iterable a list of
\* Roles, anything else is left as it is.
standardizeOne(self, permission, roles) ==
    IF roles.cls = "str" \/ roles.cls = "Role"
    THEN LET got == getRole(self, roles)
         IN  [got.self EXCEPT !.permissions[permission] = List(<<got.ret>>)]
    ELSE IF Truthy(roles)
    THEN LET got == standardizeList(self, roles.items, 1, <<>>)
         IN  [got.self EXCEPT !.permissions[permission] = List(got.rolesList)]
    ELSE self

\* The outer loop of standardizeRoles over items, the (permission, roles)
\* pairs self.permissions.items() returned.
RECURSIVE standardizeRoles(_, _, _)
standardizeRoles(self, items, i) ==
    IF i > Len(items) THEN self
    ELSE standardizeRoles(standardizeOne(self, items[i][1], items[i][2]),
                          items, i + 1)

\* State.__init__(permissions, initial, phase, show). order is the order in
\* which the dict permissions hands out its keys, heap the first free
\* address.
State(permissions, initial, phase, show, order, heap) ==
    LET self == [cls |-> "State", usedRoles |-> <<>>,
                 permissions |-> permissions, initial |-> initial,
                 phase |-> phase, show |-> show, heap |-> heap]
        items == [i \in 1..Len(order) |-> <<order[i], permissions[order[i]]>>]
    IN  standardizeRoles(self, items, 1)

\* State.getUsedRoles: the values of usedRoles.
getUsedRoles(self) == {self.usedRoles[name] : name \in DOMAIN self.usedRoles}

----------------------------------------------------------------------------
(* The workflow class wf and its State instances                           *)

\* A State instance, identified by its object identity.
StateObj(oid) == [cls |-> "State", oid |-> oid]

Draft == StateObj("s1")
Review == StateObj("s2")
Published == StateObj("s3")
States == {Draft, Review, Published}

\* dir(wf): the attribute names of the workflow class, which dir() returns
\* in alphabetical order. "public" is a second name of the Published state.
wfDir == <<"__doc__", "__module__", "draft", "public", "published", "review">>

\* getattr(wf, name)
wfGetattr(name) ==
    CASE name = "__doc__" -> None
      [] name = "__module__" -> Str("wf")
      [] name = "draft" -> Draft
      [] name = "public" -> Published
      [] name = "published" -> Published
      [] name = "review" -> Review

\* State.getName: the first name of dir(wf) whose value is the state; the
\* loop falls off its end, returning None, when no attribute matches.
RECURSIVE getNameFrom(_, _)
getNameFrom(self, i) ==
    IF i > Len(wfDir) THEN None
    ELSE IF wfGetattr(wfDir[i]) = self THEN Str(wfDir[i])
    ELSE getNameFrom(self, i + 1)

getName(self) == getNameFrom(self, 1)

----------------------------------------------------------------------------
(* The object facade (collaborator of this module)                         *)

\* obj.addHistoryEvent(action, review_state=..., comments=...): appends one
\* event to the history log.
addHistoryEvent(hist, action, review_state, comments) ==
    Append(hist, [action |-> action, review_state |-> review_state,
                  comments |-> comments])

\* obj.State(name=True): the state name carried by the most recent event.
StateName(hist) == hist[Len(hist)].review_state

\* obj.State(name=False): the State instance the workflow declares under
\* that name.
CurrentState(hist) == wfGetattr(StateName(hist).s)

----------------------------------------------------------------------------
(* class Transition                                                        *)

\* Transition.__init__ that keeps a role name as given.
TransitionKeepName(states, condition, action, notify) ==
    [cls |-> "Transition", states |-> states, condition |-> condition,
     action |-> action, notify |-> notify]

\* Transition.__init__: a condition given as a role name becomes a Role.
Transition(states, condition, action, notify) ==
    [cls |-> "Transition",
     states |-> states,
     condition |-> IF condition.cls = "str"
                   THEN Role(condition.s, FALSE, TRUE) ELSE condition,
     action |-> action,
     notify |-> notify]

\* Transition.isSingle: isinstance(self.states[0], State)
isSingle(self) == self.states.items[1].cls = "State"

\* A collaborator call made while evaluating a guard.
Called(fn, arg) == [fn |-> fn, arg |-> arg]

\* The loop of isTriggerable over the (startState, stopState) pairs.
RECURSIVE startFound(_, _, _)
startFound(pairs, objState, i) ==
    IF i > Len(pairs) THEN FALSE
    ELSE IF pairs[i].items[1] = objState THEN TRUE
    ELSE startFound(pairs, objState, i + 1)

\* isStartState without the test of the object's state for a single pair.
isStartStateAnySingle(self, objState) ==
    IF isSingle(self)
    THEN TRUE
    ELSE startFound(self.states.items, objState, 1)

\* isStartState without the final "if not startFound: return False".
isStartStateNoFail(self, objState) ==
    IF isSingle(self)
    THEN objState = self.states.items[1]
    ELSE TRUE

\* The first check of isTriggerable: is the object's state a start state of
\* the transition?
isStartState(self, objState) ==
    IF isSingle(self)
    THEN objState = self.states.items[1]
    ELSE startFound(self.states.items, objState, 1)

\* The loop of hasState over the (startState, stopState) pairs. stateIndex
\* counts from 1 here, from 0 in the code.
RECURSIVE hasStateIn(_, _, _, _)
hasStateIn(pairs, stateIndex, state, i) ==
    IF i > Len(pairs) THEN False
    ELSE IF pairs[i].items[stateIndex] = state THEN True
    ELSE hasStateIn(pairs, stateIndex, state, i + 1)

\* hasState that looks at start states whatever isFrom is.
hasStateFromOnly(self, state, isFrom) ==
    IF isSingle(self)
    THEN Bool(state = self.states.items[1])
    ELSE hasStateIn(self.states.items, 1, state, 1)

\* Transition.hasState(state, isFrom).
hasState(self, state, isFrom) ==
    LET stateIndex == IF Truthy(isFrom) THEN 1 ELSE 2
    IN  IF isSingle(self)
        THEN Bool(state = self.states.items[stateIndex])
        ELSE hasStateIn(self.states.items, stateIndex, state, 1)

\* hasRoleAfter written as "hasRole = user.has_role(condition, obj)".
hasRoleAfterLast(hasRole, held) == Bool(held)

\* The value of hasRole once a role element was checked; held is the answer
\* of user.has_role.
hasRoleAfter(hasRole, held) ==
    IF held THEN True
    ELSE IF hasRole = None THEN False ELSE hasRole

\* predicateFails that ignores what the predicate returned.
predicateFailsNever(value) == FALSE

\* Does the scan end with False after a predicate returned value?
predicateFails(value) == ~value

\* The loop of isTriggerable over the elements of a tuple or list condition.
\* hasRole is None, False or True; userRoles is the set of role names for
\* which user.has_role(name, obj) answers true, predVal the value every
\* predicate returns on (wf, obj.appy()).
RECURSIVE scanCondition(_, _, _, _, _, _)
scanCondition(items, i, hasRole, calls, userRoles, predVal) ==
    IF i > Len(items)
    THEN [ret |-> IF hasRole # False THEN True ELSE None, calls |-> calls]
    ELSE LET condition == IF items[i].cls = "Role"
                          THEN Str(items[i].name) ELSE items[i]
         IN  IF condition.cls = "str"
             THEN LET held == condition.s \in userRoles
                  IN  scanCondition(items, i + 1,
                          hasRoleAfter(hasRole, held),
                          Append(calls, Called("has_role", condition.s)),
                          userRoles, predVal)
             ELSE LET calls1 == Append(calls, Called("condition", condition.fn))
                  IN  IF predicateFails(predVal[condition.fn])
                      THEN [ret |-> False, calls |-> calls1]
                      ELSE scanCondition(items, i + 1, hasRole, calls1,
                                         userRoles, predVal)

\* isTriggerable that tests noSecurity only after the condition.
isTriggerableLateBypass(self, hist, noSecurity, userRoles, predVal) ==
    LET isStart == isStartState(self, CurrentState(hist))
        user == <<Called("getUser", "")>>
        checked ==
            IF self.condition.cls = "Role"
            THEN [ret |-> Bool(self.condition.name \in userRoles),
                  calls |-> Append(user,
                               Called("has_role", self.condition.name))]
            ELSE IF self.condition.cls = "function"
            THEN [ret |-> Bool(predVal[self.condition.fn]),
                  calls |-> Append(user,
                               Called("condition", self.condition.fn))]
            ELSE IF self.condition.cls \in {"tuple", "list"}
            THEN scanCondition(self.condition.items, 1, None, user,
                               userRoles, predVal)
            ELSE [ret |-> None, calls |-> user]
    IN  IF ~isStart THEN [ret |-> False, calls |-> <<>>]
        ELSE IF noSecurity THEN [ret |-> True, calls |-> checked.calls]
        ELSE checked

\* isTriggerable that starts the scan of a sequence with hasRole = False, as
\* if a role had been asked for.
isTriggerableRoleNeeded(self, hist, noSecurity, userRoles, predVal) ==
    LET isStart == isStartState(self, CurrentState(hist))
        user == <<Called("getUser", "")>>
    IN  IF ~isStart THEN [ret |-> False, calls |-> <<>>]
        ELSE IF noSecurity THEN [ret |-> True, calls |-> <<>>]
        ELSE IF self.condition.cls = "Role"
        THEN [ret |-> Bool(self.condition.name \in userRoles),
              calls |-> Append(user, Called("has_role", self.condition.name))]
        ELSE IF self.condition.cls = "function"
        THEN [ret |-> Bool(predVal[self.condition.fn]),
              calls |-> Append(user, Called("condition", self.condition.fn))]
        ELSE IF self.condition.cls \in {"tuple", "list"}
        THEN scanCondition(self.condition.items, 1, False, user,
                           userRoles, predVal)
        ELSE [ret |-> None, calls |-> user]

\* Transition.isTriggerable(obj, wf, noSecurity): the returned value and the
\* collaborator calls made, in order. A condition that is neither a Role, a
\* function, a tuple nor a list leaves the if/elif chain without a return
\* statement: the method returns None.
isTriggerable(self, hist, noSecurity, userRoles, predVal) ==
    LET isStart == isStartState(self, CurrentState(hist))
        user == <<Called("getUser", "")>>
    IN  IF ~isStart THEN [ret |-> False, calls |-> <<>>]
        ELSE IF noSecurity THEN [ret |-> True, calls |-> <<>>]
        ELSE IF self.condition.cls = "Role"
        THEN [ret |-> Bool(self.condition.name \in userRoles),
              calls |-> Append(user, Called("has_role", self.condition.name))]
        ELSE IF self.condition.cls = "function"
        THEN [ret |-> Bool(predVal[self.condition.fn]),
              calls |-> Append(user, Called("condition", self.condition.fn))]
        ELSE IF self.condition.cls \in {"tuple", "list"}
        THEN scanCondition(self.condition.items, 1, None, user,
                           userRoles, predVal)
        ELSE [ret |-> None, calls |-> user]

\* What an action callable does when invoked with (wf, obj): it returns a
\* message part, returns None, or raises.
actionOutcome(fn) ==
    CASE fn = "actMsg" -> [raised |-> FALSE, value |-> Str("done.")]
      [] fn = "actNone" -> [raised |-> FALSE, value |-> None]
      [] fn = "actFail" -> [raised |-> TRUE, value |-> None]

\* executeActions that catches what an action raises and goes on.
RECURSIVE executeActionsCaught(_, _, _, _)
executeActionsCaught(acts, i, msg, calls) ==
    IF i > Len(acts) THEN [raised |-> FALSE, msg |-> msg, calls |-> calls]
    ELSE LET msgPart == actionOutcome(acts[i].fn)
         IN  executeActionsCaught(acts, i + 1,
                 IF Truthy(msgPart.value)
                 THEN msg \o msgPart.value.s ELSE msg,
                 Append(calls, Called("action", acts[i].fn)))

\* The loop of executeAction over a tuple or list of actions; a raising
\* action ends it.
RECURSIVE executeActions(_, _, _, _)
executeActions(acts, i, msg, calls) ==
    IF i > Len(acts) THEN [raised |-> FALSE, msg |-> msg, calls |-> calls]
    ELSE LET msgPart == actionOutcome(acts[i].fn)
             calls1 == Append(calls, Called("action", acts[i].fn))
         IN  IF msgPart.raised
             THEN [raised |-> TRUE, msg |-> msg, calls |-> calls1]
             ELSE executeActions(acts, i + 1,
                      IF Truthy(msgPart.value)
                      THEN msg \o msgPart.value.s ELSE msg,
                      calls1)

\* Transition.executeAction(obj, wf)
executeAction(self) ==
    IF self.action.cls \in {"tuple", "list"}
    THEN executeActions(self.action.items, 1, "", <<>>)
    ELSE executeActions(<<self.action>>, 1, "", <<>>)

\* The target state of trigger: states[1] of a single pair, else the end
\* state of the first pair whose start state is the object's state. When no
\* pair matches, targetStateName is never assigned.
RECURSIVE targetOfPairs(_, _, _)
targetOfPairs(pairs, startState, i) ==
    IF i > Len(pairs) THEN [bound |-> FALSE, targetStateName |-> None]
    ELSE IF startState = pairs[i].items[1]
    THEN [bound |-> TRUE, targetStateName |-> getName(pairs[i].items[2])]
    ELSE targetOfPairs(pairs, startState, i + 1)

\* targetOf that takes the end state of the first pair, whatever the
\* object's state, and the start state of a single pair.
targetOfFirstPair(self, hist) ==
    IF isSingle(self)
    THEN [bound |-> TRUE, targetStateName |-> getName(self.states.items[1])]
    ELSE [bound |-> TRUE,
          targetStateName |-> getName(self.states.items[1].items[2])]

\* targetOf with the target preset to the end state of the last pair, for
\* the case where no pair matches.
targetOfPreset(self, hist) ==
    IF isSingle(self)
    THEN [bound |-> TRUE, targetStateName |-> getName(self.states.items[2])]
    ELSE LET found == targetOfPairs(self.states.items, CurrentState(hist), 1)
             last == self.states.items[Len(self.states.items)]
         IN  IF found.bound THEN found
             ELSE [bound |-> TRUE,
                   targetStateName |-> getName(last.items[2])]

\* targetOf that refuses a single pair whose start state is not the
\* object's state.
targetOfChecked(self, hist) ==
    IF isSingle(self)
    THEN IF hist # <<>> /\ CurrentState(hist) # self.states.items[1]
         THEN [bound |-> FALSE, targetStateName |-> None]
         ELSE [bound |-> TRUE,
               targetStateName |-> getName(self.states.items[2])]
    ELSE targetOfPairs(self.states.items, CurrentState(hist), 1)

targetOf(self, hist) ==
    IF isSingle(self)
    THEN [bound |-> TRUE, targetStateName |-> getName(self.states.items[2])]
    ELSE targetOfPairs(self.states.items, CurrentState(hist), 1)

\* eventAction without the special case of the initialization transition.
eventActionAlways(transitionName) == Str(transitionName)

\* The action label of the event: None for the initialization transition.
eventAction(transitionName) ==
    IF transitionName = "_init_" THEN None ELSE Str(transitionName)

\* eventComment that ignores doHistory.
eventCommentKept(comment, doHistory) == comment

\* The comment of the event: the caller's one unless doHistory is off.
eventComment(comment, doHistory) ==
    IF ~doHistory THEN "_invisible_" ELSE comment

\* obj.translate(label)
translate(label) == "[" \o label \o "]"

\* trigger sending the notification before it executes the action.
triggerNotifyFirst(self, transitionName, hist, comment, doAction, doNotify, doHistory, doSay, isTemporary, mailEnabled) ==
    LET target == targetOf(self, hist)
        action == eventAction(transitionName)
        comments == eventComment(comment, doHistory)
        hist1 == addHistoryEvent(hist, action, target.targetStateName,
                                 comments)
        calls1 == <<Called("addHistoryEvent", "")>>
        calls2 == IF ~isTemporary THEN Append(calls1, Called("reindex", ""))
                  ELSE calls1
        calls3 == IF doNotify /\ Truthy(self.notify) /\ mailEnabled
                  THEN Append(calls2,
                              Called("sendNotification", transitionName))
                  ELSE calls2
        acted == IF doAction /\ Truthy(self.action) THEN executeAction(self)
                 ELSE [raised |-> FALSE, msg |-> "", calls |-> <<>>]
        calls4 == calls3 \o acted.calls
        msg == IF acted.msg = "" THEN translate("object_saved")
               ELSE acted.msg
    IN  IF ~target.bound
        THEN [history |-> hist, error |-> "UnboundLocalError",
              calls |-> <<>>]
        ELSE IF acted.raised
        THEN [history |-> hist1, error |-> "ActionError", calls |-> calls4]
        ELSE IF ~doSay \/ transitionName = "_init_"
        THEN [history |-> hist1, error |-> "", calls |-> calls4]
        ELSE [history |-> hist1, error |-> "",
              calls |-> Append(calls4, Called("say", msg))]

\* Transition.trigger(transitionName, obj, wf, comment, doAction, doNotify,
\* doHistory, doSay) on an object whose history is hist: the history it
\* leaves, the error it raises ("" if none) and the collaborator calls it
\* makes, in order. isTemporary is obj.isTemporary(), mailEnabled is
\* obj.getTool(True).mailEnabled.
trigger(self, transitionName, hist, comment, doAction, doNotify, doHistory, doSay, isTemporary, mailEnabled) ==
    LET target == targetOf(self, hist)
        action == eventAction(transitionName)
        comments == eventComment(comment, doHistory)
        hist1 == addHistoryEvent(hist, action, target.targetStateName,
                                 comments)
        calls1 == <<Called("addHistoryEvent", "")>>
        calls2 == IF ~isTemporary THEN Append(calls1, Called("reindex", ""))
                  ELSE calls1
        acted == IF doAction /\ Truthy(self.action) THEN executeAction(self)
                 ELSE [raised |-> FALSE, msg |-> "", calls |-> <<>>]
        calls3 == calls2 \o acted.calls
        calls4 == IF doNotify /\ Truthy(self.notify) /\ mailEnabled
                  THEN Append(calls3,
                              Called("sendNotification", transitionName))
                  ELSE calls3
        msg == IF acted.msg = "" THEN translate("object_saved")
               ELSE acted.msg
    IN  IF ~target.bound
        THEN [history |-> hist, error |-> "UnboundLocalError",
              calls |-> <<>>]
        ELSE IF acted.raised
        THEN [history |-> hist1, error |-> "ActionError", calls |-> calls3]
        ELSE IF ~doSay \/ transitionName = "_init_"
        THEN [history |-> hist1, error |-> "", calls |-> calls4]
        ELSE [history |-> hist1, error |-> "",
              calls |-> Append(calls4, Called("say", msg))]

----------------------------------------------------------------------------
(* Inputs                                                                  *)

RoleNames == {"Manager", "Editor"}
Predicates == {"isComplete", "isValid"}

\* The forms of Transition.states: every single pair, and tuples of pairs.
Pair(from, to) == Tuple(<<from, to>>)
SingleForms == {Pair(from, to) : from \in States, to \in States}
undoForm == Tuple(<<Pair(Review, Draft), Pair(Published, Draft)>>)
MultiForms ==
    {undoForm,
     Tuple(<<Pair(Draft, Review), Pair(Draft, Published)>>),
     Tuple(<<Pair(Draft, Published), Pair(Draft, Review),
             Pair(Review, Review)>>),
     Tuple(<<Pair(Published, Published)>>),
     Tuple(<<Pair(Published, Review), Pair(Review, Published),
             Pair(Published, Draft)>>)}
StatesForms == SingleForms \cup MultiForms

\* The forms of Transition.condition.
CondElements ==
    {Role("Manager", FALSE, TRUE), Str("Editor"),
     Function("isComplete"), Function("isValid")}
SeqsUpTo(S, n) == UNION {[1..k -> S] : k \in 0..n}
Conditions ==
    {True, False, Str("Manager"), Role("Editor", FALSE, TRUE),
     Role("Owner", FALSE, TRUE), Function("isComplete"), Function("isValid")}
    \cup {Tuple(items) : items \in SeqsUpTo(CondElements, MaxCondLen)}
    \cup {[cls |-> "list", items |-> items] :
             items \in SeqsUpTo(CondElements, 2)}

\* The forms of Transition.action and Transition.notify.
Actions ==
    {None, Function("actMsg"), Function("actNone"), Function("actFail"),
     Tuple(<<>>),
     Tuple(<<Function("actMsg"), Function("actNone"), Function("actMsg")>>),
     Tuple(<<Function("actMsg"), Function("actFail"), Function("actNone")>>)}
Notifies == {None, Function("notifyManagers")}

\* The arguments of one Transition(...) declaration.
Decl(states, condition, action, notify) ==
    [states |-> states, condition |-> condition, action |-> action,
     notify |-> notify]

\* The declarations guards are evaluated on: every form of states with every
\* form of condition.
GuardTransitions ==
    {Decl(states, condition, None, None) :
        states \in StatesForms, condition \in Conditions}

\* The declarations that get triggered: every form of states, and every
\* form of action and notify.
Transitions ==
    {Decl(states, True, None, None) : states \in StatesForms}
    \cup {Decl(Pair(Draft, Published), Str("Manager"), action, notify) :
             action \in Actions, notify \in Notifies}

\* The transitions of one workflow, with their guards:
\* submit, publish, reject, undo.
WorkflowTransitions ==
    {Decl(Pair(Draft, Review), True, None, None),
     Decl(Pair(Draft, Published), Str("Manager"), Function("actMsg"),
          Function("notifyManagers")),
     Decl(Pair(Review, Draft), Function("isComplete"), None, None),
     Decl(undoForm, Tuple(<<Str("Manager"), Function("isValid")>>),
          None, None)}

TransitionNames == {"_init_", "publish"}
Comments == {"ok"}

\* Inputs of State: the permissions a workflow manages (line 21), the Role
\* instances the workflow created itself, and the ways to write the roles a
\* permission is granted to.
PermissionNames == {"read", "write"}
GivenRoles ==
    {RoleAt("Manager", TRUE, TRUE, 1), RoleAt("Manager", FALSE, TRUE, 2)}
RoleRefs == {Str(name) : name \in RoleNames} \cup GivenRoles
PermissionValues ==
    RoleRefs
    \cup {Tuple(items) : items \in SeqsUpTo(RoleRefs, MaxRoles)}
    \cup {List(items) : items \in SeqsUpTo(RoleRefs, MaxRoles)}
PermissionMaps == [PermissionNames -> PermissionValues]
KeyOrders ==
    {order \in [1..Cardinality(PermissionNames) -> PermissionNames] :
        \A i, j \in DOMAIN order : order[i] = order[j] => i = j}

----------------------------------------------------------------------------
(* Operations                                                              *)

\* A new object has no event in its history.
Init ==
    /\ history = <<>>
    /\ call = [op |-> "none"]
    /\ stateInst = None

\* A call of transition.isTriggerable(obj, wf, noSecurity) by a user holding
\* userRoles, for a transition declared in T.
IsTriggerable(T) ==
    /\ call.op = "none"
    /\ history # <<>>
    /\ \E decl \in T, noSecurity \in BOOLEAN, userRoles \in SUBSET RoleNames,
          predVal \in [Predicates -> BOOLEAN] :
        /\ LET self == Transition(decl.states, decl.condition, decl.action,
                                  decl.notify)
               res == isTriggerable(self, history, noSecurity, userRoles,
                                    predVal)
           IN  call' = [op |-> "isTriggerable", self |-> self,
                        condition |-> decl.condition,
                        noSecurity |-> noSecurity, userRoles |-> userRoles,
                        predVal |-> predVal, ret |-> res.ret,
                        calls |-> res.calls]
        /\ UNCHANGED <<history, stateInst>>

\* A call of transition.trigger(transitionName, obj, wf, comment, doAction,
\* doNotify, doHistory, doSay).
Trigger ==
    /\ call.op = "none"
    /\ Len(history) < MaxHistory
    /\ \E decl \in Transitions, transitionName \in TransitionNames,
          comment \in Comments, doAction \in BOOLEAN, doNotify \in BOOLEAN,
          doHistory \in BOOLEAN, doSay \in BOOLEAN, isTemporary \in BOOLEAN,
          mailEnabled \in BOOLEAN :
        LET self == Transition(decl.states, decl.condition, decl.action,
                               decl.notify)
        IN
        /\ isSingle(self) \/ history # <<>>
        /\ LET res == trigger(self, transitionName, history, comment,
                              doAction, doNotify, doHistory, doSay,
                              isTemporary, mailEnabled)
           IN  /\ history' = res.history
               /\ call' = [op |-> "trigger", self |-> self,
                           transitionName |-> transitionName,
                           comment |-> comment, doAction |-> doAction,
                           doNotify |-> doNotify, doHistory |-> doHistory,
                           doSay |-> doSay, isTemporary |-> isTemporary,
                           mailEnabled |-> mailEnabled, before |-> history,
                           error |-> res.error, calls |-> res.calls]
               /\ UNCHANGED stateInst

\* A call of transition.hasState(state, isFrom).
HasState ==
    /\ call.op = "none"
    /\ \E decl \in Transitions, state \in States, isFrom \in {True, False} :
        LET self == Transition(decl.states, decl.condition, decl.action,
                               decl.notify)
        IN  call' = [op |-> "hasState", self |-> self, state |-> state,
                     isFrom |-> isFrom, ret |-> hasState(self, state, isFrom)]
    /\ UNCHANGED <<history, stateInst>>

\* The call returns (or its error reaches the caller): the request is over.
\* Execution is synchronous, one call at a time.
Return ==
    /\ call.op # "none"
    /\ call' = [op |-> "none"]
    /\ UNCHANGED <<history, stateInst>>

Next == IsTriggerable(WorkflowTransitions) \/ Trigger \/ HasState \/ Return

Spec == Init /\ [][Next]_vars

\* The guard alone: one call of isTriggerable, for every form of transition,
\* on an object that sits in any state of the workflow.
GuardInit ==
    /\ history \in {addHistoryEvent(<<>>, None, getName(state), "") :
                       state \in States}
    /\ call = [op |-> "none"]
    /\ stateInst = None

GuardNext == IsTriggerable(GuardTransitions)

GuardSpec == GuardInit /\ [][GuardNext]_vars

\* The object was created in the initial state of the workflow: its history
\* holds the '_init_' event only.
ProtocolInit ==
    /\ history = addHistoryEvent(<<>>, eventAction("_init_"), getName(Draft),
                                 "")
    /\ call = [op |-> "none"]
    /\ stateInst = None

\* The caller keeps the protocol of the docstring of trigger: it triggers
\* the transition for which isTriggerable has just returned True, on the
\* same object, with the default arguments.
CheckedTrigger ==
    /\ call.op = "isTriggerable"
    /\ call.ret = True
    /\ Len(history) <= MaxSteps
    /\ \E transitionName \in TransitionNames, comment \in Comments :
        LET res == trigger(call.self, transitionName, history, comment,
                           TRUE, TRUE, TRUE, TRUE, FALSE, TRUE)
        IN  /\ history' = res.history
            /\ call' = [op |-> "trigger", self |-> call.self,
                        transitionName |-> transitionName,
                        comment |-> comment, doAction |-> TRUE,
                        doNotify |-> TRUE, doHistory |-> TRUE,
                        doSay |-> TRUE, isTemporary |-> FALSE,
                        mailEnabled |-> TRUE, before |-> history,
                        error |-> res.error, calls |-> res.calls]
    /\ UNCHANGED stateInst

ProtocolNext == IsTriggerable(WorkflowTransitions) \/ CheckedTrigger \/ Return

ProtocolSpec == ProtocolInit /\ [][ProtocolNext]_vars

\* State(permissions): the workflow declares a state. The dict hands out its
\* keys in any order; the Roles the constructor creates are allocated after
\* the ones the workflow created itself.
NewState ==
    /\ call.op = "none"
    /\ stateInst = None
    /\ \E permissions \in PermissionMaps, order \in KeyOrders :
        /\ stateInst' = State(permissions, False, None, True, order,
                              Cardinality(GivenRoles) + 1)
        /\ call' = [op |-> "State", permissions |-> permissions,
                    order |-> order]
    /\ UNCHANGED history

\* state.getRole(role) on the declared state.
GetRole ==
    /\ call.op = "none"
    /\ stateInst # None
    /\ \E role \in RoleRefs :
        LET got == getRole(stateInst, role)
        IN  /\ stateInst' = got.self
            /\ call' = [op |-> "getRole", role |-> role,
                        before |-> stateInst, ret |-> got.ret]
    /\ UNCHANGED history

StateNext == NewState \/ GetRole \/ Return

StateSpec == Init /\ [][StateNext]_vars

----------------------------------------------------------------------------
(* Properties of isTriggerable                                             *)

\* The start states a transition declares.
StartStates(self) ==
    IF self.states.items[1].cls = "State"
    THEN {self.states.items[1]}
    ELSE {self.states.items[i].items[1] : i \in 1..Len(self.states.items)}

\* The request is a call of isTriggerable.
Guarding == call.op = "isTriggerable"

\* The object sits in a start state of the transition of the call.
AtStart == CurrentState(history) \in StartStates(call.self)

\* The role name a role element of a condition stands for.
RoleNameOf(element) ==
    IF element.cls = "Role" THEN element.name ELSE element.s

IsSequence(condition) == condition.cls \in {"tuple", "list"}

\* C1: when the object's state is not a start state of the transition,
\* isTriggerable returns False and makes no collaborator call (no user
\* lookup, no role check, no predicate), whatever the form of the
\* transition, the condition and noSecurity.
C1_FailsClosed ==
    (Guarding /\ ~AtStart) => (call.ret = False /\ call.calls = <<>>)

\* A multi-pair transition guarded by a sequence, asked with noSecurity for
\* an object in none of its start states.
C1_Witness ==
    /\ Guarding /\ ~AtStart
    /\ call.self.states.items[1].cls = "tuple"
    /\ Len(call.self.states.items) = 2
    /\ IsSequence(call.condition) /\ Len(call.condition.items) = 2
    /\ call.noSecurity
    /\ call.ret = False

\* C2: with a Role, or a role name, as condition and security enabled,
\* isTriggerable returns True iff the object is in a start state and the
\* user holds the role; a user lacking the role gets False.
C2_SingleRole ==
    (Guarding /\ call.condition.cls \in {"Role", "str"} /\ ~call.noSecurity)
    => LET held == RoleNameOf(call.condition) \in call.userRoles
       IN  /\ (call.ret = True) <=> (AtStart /\ held)
           /\ ~held => call.ret = False

\* The condition was given as a role name, the user holds the role.
C2_Witness ==
    /\ Guarding /\ AtStart /\ ~call.noSecurity
    /\ call.condition = Str("Manager")
    /\ "Manager" \in call.userRoles
    /\ call.ret = True

\* C3: with a non-empty sequence of role elements only, in a start state
\* and security enabled, isTriggerable returns True iff the user holds one
\* of the roles, wherever that role stands in the sequence.
C3_AnyRole ==
    (/\ Guarding /\ AtStart /\ ~call.noSecurity
     /\ IsSequence(call.condition)
     /\ Len(call.condition.items) >= 1
     /\ \A i \in 1..Len(call.condition.items) :
            call.condition.items[i].cls \in {"Role", "str"})
    => ((call.ret = True) <=>
        \E i \in 1..Len(call.condition.items) :
            RoleNameOf(call.condition.items[i]) \in call.userRoles)

\* The user holds the first role of the sequence and not the last one.
C3_Witness ==
    /\ Guarding /\ AtStart /\ ~call.noSecurity
    /\ call.condition = Tuple(<<Role("Manager", FALSE, TRUE), Str("Editor")>>)
    /\ call.userRoles = {"Manager"}
    /\ call.ret = True

\* C4: with a sequence holding a predicate that returns false, and security
\* enabled, isTriggerable returns False, whatever roles the user holds and
\* wherever the predicate stands.
C4_FalsePredicate ==
    (/\ Guarding /\ ~call.noSecurity
     /\ IsSequence(call.condition)
     /\ \E i \in 1..Len(call.condition.items) :
            /\ call.condition.items[i].cls = "function"
            /\ ~call.predVal[call.condition.items[i].fn])
    => call.ret = False

\* The false predicate comes last, after a role the user holds and a
\* predicate that returns true.
C4_Witness ==
    /\ Guarding /\ AtStart /\ ~call.noSecurity
    /\ call.condition = Tuple(<<Role("Manager", FALSE, TRUE),
                                Function("isComplete"), Function("isValid")>>)
    /\ "Manager" \in call.userRoles
    /\ call.predVal["isComplete"] /\ ~call.predVal["isValid"]
    /\ call.ret = False

\* C5: with a boolean literal as condition, in a start state and security
\* enabled, isTriggerable returns that literal.
C5_ReturnsLiteral ==
    (Guarding /\ AtStart /\ ~call.noSecurity /\ call.condition.cls = "bool")
    => call.ret = call.condition

\* C6: with noSecurity, in a start state, isTriggerable returns True for
\* every form of condition and makes no collaborator call.
C6_Bypass ==
    (Guarding /\ AtStart /\ call.noSecurity)
    => (call.ret = True /\ call.calls = <<>>)

\* noSecurity with the literal False as condition.
C6_Witness ==
    /\ Guarding /\ AtStart /\ call.noSecurity
    /\ call.condition = False
    /\ call.userRoles = {}
    /\ call.ret = True

----------------------------------------------------------------------------
(* Properties of trigger                                                   *)

\* The request is a call of trigger on an object that sits in a start state
\* of the transition.
FromStart ==
    /\ call.op = "trigger"
    /\ call.before # <<>>
    /\ CurrentState(call.before) \in StartStates(call.self)

\* The request is a call of trigger that resolves a target state: the
\* transition is a single pair (the object's state is not read, the object
\* may be new), or one of its pairs starts at the object's state.
Resolved ==
    /\ call.op = "trigger"
    /\ isSingle(call.self) \/ FromStart

\* The event the call appended.
LastEvent == history[Len(history)]

\* The call appended exactly one event and left the earlier ones alone.
AppendedOne ==
    /\ Len(history) = Len(call.before) + 1
    /\ SubSeq(history, 1, Len(call.before)) = call.before

\* The event carries a name the workflow declares for state.
TargetIs(state) ==
    /\ LastEvent.review_state.cls = "str"
    /\ LastEvent.review_state.s \in {wfDir[i] : i \in 1..Len(wfDir)}
    /\ wfGetattr(LastEvent.review_state.s) = state

\* C7: a trigger of a single pair (from, to) on an object in state from
\* appends exactly one event, which carries the workflow name of to, leaves
\* the earlier events unchanged, and the state read afterwards is to.
C7_SingleAppends ==
    (FromStart /\ isSingle(call.self))
    => /\ AppendedOne
       /\ TargetIs(call.self.states.items[2])
       /\ StateName(history) = LastEvent.review_state
       /\ CurrentState(history) = call.self.states.items[2]

\* publish, from Draft to Published.
C7_Witness ==
    /\ FromStart
    /\ call.self.states = Pair(Draft, Published)
    /\ Len(history) = 2
    /\ StateName(history) = Str("public")

\* The index of the first pair that starts at state.
FirstPairFrom(pairs, state) ==
    CHOOSE i \in 1..Len(pairs) :
        /\ pairs[i].items[1] = state
        /\ \A j \in 1..(i - 1) : pairs[j].items[1] # state

\* C8: a trigger of a multi-pair transition appends an event whose target
\* is the end state of the first pair that starts at the object's state;
\* the undo transition, from Review and from Published, leads to Draft.
C8_FirstPair ==
    (FromStart /\ ~isSingle(call.self))
    => LET pairs == call.self.states.items
           from == CurrentState(call.before)
       IN  /\ AppendedOne
           /\ TargetIs(pairs[FirstPairFrom(pairs, from)].items[2])
           /\ (call.self.states = undoForm /\ from \in {Review, Published})
              => CurrentState(history) = Draft

\* Two pairs start at Published: the first one, to Review, is taken.
C8_Witness ==
    /\ FromStart
    /\ call.self.states = Tuple(<<Pair(Published, Review),
                                  Pair(Review, Published),
                                  Pair(Published, Draft)>>)
    /\ CurrentState(call.before) = Published
    /\ CurrentState(history) = Review

\* What the call would have done with doHistory = True.
WithHistory ==
    trigger(call.self, call.transitionName, call.before, call.comment,
            call.doAction, call.doNotify, TRUE, call.doSay,
            call.isTemporary, call.mailEnabled)

Said == \E i \in 1..Len(call.calls) : call.calls[i].fn = "say"

\* C10: a trigger under the identifier '_init_' appends an event whose
\* action label is None and calls obj.say for no value of doSay; under any
\* other identifier the action label is the identifier.
C10_InitSentinel ==
    Resolved
    => /\ AppendedOne
       /\ call.transitionName = "_init_"
          => (LastEvent.action = None /\ ~Said)
       /\ call.transitionName # "_init_"
          => LastEvent.action = Str(call.transitionName)

\* The first event of a new object: '_init_' on (Draft, Draft), doSay on.
C10_Witness ==
    /\ Resolved
    /\ call.before = <<>>
    /\ call.self.states = Pair(Draft, Draft)
    /\ call.transitionName = "_init_" /\ call.doSay
    /\ call.error = ""
    /\ LastEvent.action = None
    /\ ~Said

\* The action callables of the transition of the call, in declared order.
ActionFns ==
    IF call.self.action.cls \in {"tuple", "list"}
    THEN [i \in 1..Len(call.self.action.items) |->
             call.self.action.items[i].fn]
    ELSE IF call.self.action.cls = "function"
    THEN <<call.self.action.fn>>
    ELSE <<>>

\* The action callables the call invoked, in order.
ActionsInvoked ==
    LET at == {i \in 1..Len(call.calls) : call.calls[i].fn = "action"}
        RECURSIVE pick(_)
        pick(i) == IF i > Len(call.calls) THEN <<>>
                   ELSE IF i \in at THEN <<call.calls[i].arg>> \o pick(i + 1)
                   ELSE pick(i + 1)
    IN  pick(1)

Notified ==
    \E i \in 1..Len(call.calls) : call.calls[i].fn = "sendNotification"

\* The request is a call of trigger whose action is run and holds a
\* callable that raises.
ActionRaises ==
    /\ Resolved
    /\ call.doAction
    /\ \E i \in 1..Len(ActionFns) : ActionFns[i] = "actFail"

\* C11: when an action callable raises during trigger, the error reaches the
\* caller, the event appended by the call stays in the history, no
\* notification is sent and no message is said, and the callables declared
\* after the failing one are not invoked.
C11_ActionFailure ==
    ActionRaises
    => LET failing == CHOOSE i \in 1..Len(ActionFns) :
                          /\ ActionFns[i] = "actFail"
                          /\ \A j \in 1..(i - 1) : ActionFns[j] # "actFail"
       IN  /\ call.error = "ActionError"
           /\ AppendedOne
           /\ TargetIs(call.self.states.items[2])
           /\ ~Notified
           /\ ~Said
           /\ ActionsInvoked = SubSeq(ActionFns, 1, failing)

\* The second of three actions raises, with notification and message on.
C11_Witness ==
    /\ ActionRaises
    /\ Len(ActionFns) = 3
    /\ call.doNotify /\ call.mailEnabled /\ call.doSay
    /\ call.self.notify # None
    /\ call.transitionName = "publish"
    /\ call.error = "ActionError"
    /\ Len(history) = Len(call.before) + 1

\* The request is a call of trigger on an object whose state is not a start
\* state of the transition: the transition is not triggerable.
NotFromStart ==
    /\ call.op = "trigger"
    /\ call.before # <<>>
    /\ CurrentState(call.before) \notin StartStates(call.self)

\* C12 as claimed: a trigger of a transition that is not triggerable aborts
\* with an error, appends no event and leaves the current state unchanged.
C12_FailsLoudly ==
    NotFromStart => (call.error # "" /\ history = call.before)

\* C12: trigger does not check that the transition is triggerable. Whatever
\* the object's state and the condition of the transition, a single-pair
\* transition raises no error for it, appends one event and moves the
\* object to states[1]; only a multi-pair transition, out of its start
\* states, aborts, with no event appended.
C12_NoCheck ==
    (call.op = "trigger" /\ call.before # <<>>)
    => IF isSingle(call.self)
       THEN /\ call.error # "UnboundLocalError"
            /\ AppendedOne
            /\ TargetIs(call.self.states.items[2])
            /\ CurrentState(history) = call.self.states.items[2]
       ELSE NotFromStart
            => /\ call.error = "UnboundLocalError"
               /\ history = call.before

\* (Draft, Review) triggered on an object in state Published, without error.
C12_Witness ==
    /\ NotFromStart
    /\ call.self.states = Pair(Draft, Review)
    /\ CurrentState(call.before) = Published
    /\ call.error = ""
    /\ CurrentState(history) = Review

\* C13: a trigger of a multi-pair transition none of whose pairs starts at
\* the object's state aborts with an error before any side effect: no event
\* is appended, no collaborator is called (no reindex, action, notification
\* or message) and the object's state is unchanged.
C13_NoMatchAborts ==
    (NotFromStart /\ ~isSingle(call.self))
    => /\ call.error = "UnboundLocalError"
       /\ history = call.before
       /\ call.calls = <<>>
       /\ CurrentState(history) = CurrentState(call.before)

\* The undo transition triggered on an object in state Draft, every side
\* effect being asked for.
C13_Witness ==
    /\ NotFromStart
    /\ call.self.states = undoForm
    /\ CurrentState(call.before) = Draft
    /\ call.doAction /\ call.doNotify /\ call.doSay /\ ~call.isTemporary
    /\ call.error = "UnboundLocalError"
    /\ Len(history) = 1

----------------------------------------------------------------------------
(* Properties of State                                                     *)

\* The State constructor has just returned.
Constructed == call.op = "State"

\* value is a list of Role instances.
IsRoleList(value) ==
    /\ value.cls = "list"
    /\ \A i \in DOMAIN value.items : value.items[i].cls = "Role"

\* C14: after construction of a State from any permissions map, every value
\* stored in permissions is a list of Role instances: never a bare string,
\* never the raw input tuple.
C14_ListsOfRoles ==
    Constructed
    => \A permission \in DOMAIN stateInst.permissions :
          IsRoleList(stateInst.permissions[permission])

\* The Role instances stored across the permission lists of a State.
RolesStored(self) ==
    UNION {{self.permissions[permission].items[i] :
               i \in DOMAIN self.permissions[permission].items} :
           permission \in DOMAIN self.permissions}

\* C15: after construction, getUsedRoles() returns exactly the set of Role
\* instances that appear across the permission lists of the State, also when
\* the input mixes role names and Role instances of the same name.
C15_ExactlyStored ==
    Constructed => getUsedRoles(stateInst) = RolesStored(stateInst)

\* C16: getRole interning is idempotent. A call with a role name returns the
\* Role the table holds under that name, which is the one it held before the
\* call if the name was known (hence the one every earlier call with that
\* name returned); no call replaces an entry of the table; the key of each
\* entry is the name of the Role it holds.
C16_Interning ==
    /\ call.op = "getRole" =>
         LET before == call.before.usedRoles
             after == stateInst.usedRoles
         IN  /\ call.role.cls = "str" =>
                  /\ call.role.s \in DOMAIN after
                  /\ call.ret = after[call.role.s]
                  /\ call.role.s \in DOMAIN before
                        => call.ret = before[call.role.s]
             /\ \A name \in DOMAIN before :
                  name \in DOMAIN after /\ after[name] = before[name]
    /\ stateInst # None =>
         \A name \in DOMAIN stateInst.usedRoles :
            stateInst.usedRoles[name].name = name

\* getRole is called with a name the table holds while another Role of that
\* name has been met, and returns the Role of the table.
C16_Witness ==
    /\ call.op = "getRole"
    /\ call.role.cls = "str"
    /\ call.role.s \in DOMAIN call.before.usedRoles
    /\ call.ret = call.before.usedRoles[call.role.s]
    /\ \E role \in RolesStored(stateInst) :
          role.name = call.role.s /\ role # call.ret

----------------------------------------------------------------------------
(* Properties of hasState                                                  *)

\* The (fromState, toState) pairs a transition declares.
PairsOf(self) ==
    IF isSingle(self)
    THEN {<<self.states.items[1], self.states.items[2]>>}
    ELSE {<<self.states.items[i].items[1], self.states.items[i].items[2]>> :
             i \in 1..Len(self.states.items)}

\* C17: hasState(s, isFrom) is true iff s is the start state (isFrom true)
\* or the end state (isFrom false) of some declared pair of the transition;
\* for a single pair, iff s is states[0], respectively states[1].
C17_HasState ==
    call.op = "hasState"
    => /\ call.ret \in {True, False}
       /\ call.ret = True
            <=> \E pair \in PairsOf(call.self) :
                   IF call.isFrom = True THEN pair[1] = call.state
                   ELSE pair[2] = call.state
       /\ isSingle(call.self)
            => (call.ret = True
                  <=> IF call.isFrom = True
                      THEN call.state = call.self.states.items[1]
                      ELSE call.state = call.self.states.items[2])

\* hasState finds an end state of a multi-pair transition that is the start
\* state of none of its pairs.
C17_Witness ==
    /\ call.op = "hasState"
    /\ ~isSingle(call.self)
    /\ call.isFrom = False
    /\ call.ret = True
    /\ call.state \notin StartStates(call.self)

----------------------------------------------------------------------------
(* Order of the side effects of trigger                                    *)

\* The steps of trigger, in the order the claim gives them.
StepOrder ==
    <<"addHistoryEvent", "reindex", "action", "sendNotification", "say">>

\* The position of a collaborator call in StepOrder.
StepOf(fn) == CHOOSE k \in DOMAIN StepOrder : StepOrder[k] = fn

CallsOf(fn) == {i \in DOMAIN call.calls : call.calls[i].fn = fn}

\* C18: within one trigger call the history event is appended first, then
\* re-indexing is requested (only if the object is not temporary), then the
\* action is executed (only if doAction and an action is configured), then
\* the notification is sent (only if doNotify, a notify is configured and
\* mail is enabled), and last the message is said; no later step happens
\* before an earlier one.
C18_FixedOrder ==
    call.op = "trigger"
    => /\ \A i, j \in DOMAIN call.calls :
             i < j => /\ StepOf(call.calls[i].fn) <= StepOf(call.calls[j].fn)
                      /\ StepOf(call.calls[i].fn) = StepOf(call.calls[j].fn)
                            => call.calls[i].fn = "action"
       /\ call.calls # <<>> => call.calls[1].fn = "addHistoryEvent"
       /\ history # call.before => CallsOf("addHistoryEvent") # {}
       /\ CallsOf("reindex") # {} => ~call.isTemporary
       /\ CallsOf("action") # {}
             => call.doAction /\ Truthy(call.self.action)
       /\ CallsOf("sendNotification") # {}
             => call.doNotify /\ Truthy(call.self.notify) /\ call.mailEnabled
       /\ CallsOf("say") # {}
             => call.calls[Len(call.calls)].fn = "say"

\* A trigger call that takes all five steps.
C18_Witness ==
    /\ call.op = "trigger"
    /\ \A k \in DOMAIN StepOrder : CallsOf(StepOrder[k]) # {}

----------------------------------------------------------------------------
(* Sequences of predicates                                                 *)

\* The condition of the call is a sequence that holds predicates only.
PredicatesOnly ==
    /\ IsSequence(call.condition)
    /\ \A i \in 1..Len(call.condition.items) :
          call.condition.items[i].cls = "function"

\* C19: with a sequence of predicates only as condition, in a start state
\* and security enabled, isTriggerable returns True iff every predicate
\* returns true, whatever roles the user holds (none included), and False
\* otherwise; the empty sequence is granted.
C19_PredicatesOnly ==
    (Guarding /\ AtStart /\ ~call.noSecurity /\ PredicatesOnly)
    => /\ call.ret = True
            <=> \A i \in 1..Len(call.condition.items) :
                   call.predVal[call.condition.items[i].fn]
       /\ call.ret \in {True, False}
       /\ call.condition.items = <<>> => call.ret = True

\* A user who holds no role is granted a transition guarded by two
\* predicates.
C19_Witness ==
    /\ Guarding /\ AtStart /\ ~call.noSecurity /\ PredicatesOnly
    /\ Len(call.condition.items) = 2
    /\ call.userRoles = {}
    /\ call.ret = True

\* An empty sequence is granted to a user who holds no role.
C19_WitnessEmpty ==
    /\ Guarding /\ AtStart /\ ~call.noSecurity
    /\ call.condition = Tuple(<<>>)
    /\ call.userRoles = {}
    /\ call.ret = True

----------------------------------------------------------------------------
(* The protocol: isTriggerable, then trigger                               *)

\* The state the object was in after its i-th event.
StateAfter(i) == CurrentState(SubSeq(history, 1, i))

\* The (fromState, toState) pairs the transitions of the workflow declare.
DeclaredEdges ==
    UNION {PairsOf(Transition(decl.states, decl.condition, decl.action,
                              decl.notify)) : decl \in WorkflowTransitions}

\* C20: on an object created in the initial state, when every trigger
\* follows an isTriggerable that returned True for the same transition in
\* the same state, each trigger appends one event and takes the object along
\* a declared (fromState, toState) pair of the transition triggered; the
\* history is then a path of declared edges from the initial state, and the
\* current state is reachable along declared edges.
C20_Protocol ==
    /\ call.op = "trigger"
         => /\ call.error # "UnboundLocalError"
            /\ AppendedOne
            /\ <<CurrentState(call.before), CurrentState(history)>>
                  \in PairsOf(call.self)
    /\ StateAfter(1) = Draft
    /\ \A i \in 1..(Len(history) - 1) :
          <<StateAfter(i), StateAfter(i + 1)>> \in DeclaredEdges

\* Two transitions in a row after the creation, the last one a multi-pair
\* transition taken through its second pair.
C20_Witness ==
    /\ call.op = "trigger"
    /\ Len(call.before) > 1
    /\ ~isSingle(call.self)
    /\ CurrentState(call.before) = call.self.states.items[2].items[1]
    /\ CurrentState(history) = Draft

====
